---- MODULE Spec2Model ----
(***************************************************************************)
(* Record stores of Sumatra: the backend registry (get_record_store), the  *)
(* generic REST store (HttpRecordStore) and the CoRR nested-envelope store *)
(* (HttpCoRRStore), each talking to its remote service one HTTP exchange   *)
(* at a time.                                                              *)
(***************************************************************************)
EXTENDS Integers, Sequences, FiniteSets, TLC

VARIABLES registered, have_django, files, store, gsrv, csrv, last, prev, callers

vars == <<registered, have_django, files, store, gsrv, csrv, last, prev, callers>>

(***************************************************************************)
(* Strings.  A string is a sequence of tokens; Spell gives the characters  *)
(* of a token, so that prefix and substring tests are computed on          *)
(* characters, as Python computes them.                                    *)
(***************************************************************************)
Spell(t) ==
    CASE t = "http://" -> <<"h", "t", "t", "p", ":", "/", "/">>
      [] t = "https://corr-root.org" -> <<"h", "t", "t", "p", "s", ":", "/", "/", "c", "o", "r", "r">>
      [] t = "httpconf" -> <<"h", "t", "t", "p", "c", "o", "n", "f">>
      [] t = "store.example" -> <<"s", "t", "o", "r", "e">>
      [] t = "user:pw@" -> <<"u", ":", "p", "@">>
      [] t = "corr.json" -> <<"c", "o", "r", "r", ".", "j">>
      [] t = "hpc.json" -> <<"h", "p", "c", ".", "j">>
      [] t = "/tmp/records" -> <<"/", "t", "m", "p">>
      [] t = "/" -> <<"/">>
      [] OTHER -> <<t>>

RECURSIVE Chars(_)
Chars(s) == IF s = <<>> THEN <<>> ELSE Spell(Head(s)) \o Chars(Tail(s))

Take(cs, n) == SubSeq(cs, 1, IF Len(cs) < n THEN Len(cs) ELSE n)

\* Python's  sub in s  on the characters of s
Contains(cs, sub) ==
    \E i \in 0..(Len(cs) - Len(sub)) : SubSeq(cs, i + 1, i + Len(sub)) = sub

HTTP == <<"h", "t", "t", "p">>

StartsWith(s, p) == Len(s) >= Len(p) /\ SubSeq(s, 1, Len(p)) = p

Drop(s, n) == SubSeq(s, n + 1, Len(s))

\* sequencing: the value of one step handed to the steps after it
Bind(x, F(_)) == F(x)

(***************************************************************************)
(* The local file system the constructors and predicates read.  A file is  *)
(* its parsed JSON object (when the text is JSON) and the words of its     *)
(* text.                                                                   *)
(***************************************************************************)
Missing == <<"(missing)">>

NoFile == [exists |-> FALSE]

CoRRSignature == "https://corr-root.org"

\* a CoRR configuration file: default.api.{host,port,path,key}, default.app
CorrConfig ==
    [exists |-> TRUE, json |-> TRUE,
     words |-> {"https://corr-root.org", "443", "/api", "K", "T"},
     host |-> <<"https://corr-root.org">>, port |-> <<"443">>, path |-> <<"/api">>,
     key |-> <<"K">>, app |-> <<"T">>]

\* the same shape for another host: no signature in the text
PlainConfig ==
    [exists |-> TRUE, json |-> TRUE,
     words |-> {"h", "8080", "/api", "K", "T"},
     host |-> <<"h">>, port |-> <<"8080">>, path |-> <<"/api">>,
     key |-> <<"K">>, app |-> <<"T">>]

\* a configuration that leaves the port out
NoPortConfig ==
    [exists |-> TRUE, json |-> TRUE,
     words |-> {"https://corr-root.org", "/api", "K", "T"},
     host |-> <<"https://corr-root.org">>, port |-> Missing, path |-> <<"/api">>,
     key |-> <<"K">>, app |-> <<"T">>]

\* a text that holds the signature and is no JSON
NotJson ==
    [exists |-> TRUE, json |-> FALSE, words |-> {"https://corr-root.org"},
     host |-> Missing, port |-> Missing, path |-> Missing, key |-> Missing,
     app |-> Missing]

FileContents == {NoFile, CorrConfig, PlainConfig, NoPortConfig, NotJson}

FilePaths == {<<"httpconf">>, <<"corr.json">>, <<"hpc.json">>}

URLs ==
    {<<"http://", "store.example", "/">>, <<"http://", "store.example">>,
     <<"http://", "user:pw@", "store.example", "/">>}

URIs == URLs \cup FilePaths \cup {<<"/tmp/records">>}

ReadFile(fs, uri) == IF uri \in DOMAIN fs THEN fs[uri] ELSE NoFile

\* dict.get(key, default)
GetOr(v, default) == IF v = Missing THEN default ELSE v

(***************************************************************************)
(* Store objects and their constructors.                                   *)
(***************************************************************************)
NoStore == [cls |-> "none", server_url |-> <<>>, username |-> <<>>, password |-> <<>>]

UserInfo == {"user:pw@"}

IsUserInfo(t) == t \in UserInfo

NotUserInfo(t) == ~IsUserInfo(t)

\* process_url: strip username and password out of the URL when it holds an '@'
process_url(url) ==
    IF Contains(Chars(url), <<"@">>)
    THEN [url |-> SelectSeq(url, NotUserInfo), username |-> <<"user">>, password |-> <<"pw">>]
    ELSE [url |-> url, username |-> <<>>, password |-> <<>>]

LastChar(s) == Chars(s)[Len(Chars(s))]

\* HttpRecordStore.__init__: the stored URL always ends with "/"
HttpRecordStoreInit(uri) ==
    LET p == process_url(uri)
        url == IF LastChar(p.url) # "/" THEN p.url \o <<"/">> ELSE p.url
    IN  [ok |-> TRUE, exc |-> "none",
         obj |-> [cls |-> "HttpRecordStore", server_url |-> url,
                  username |-> p.username, password |-> p.password]]

\* a variant of the constructor that builds host:port/path/key/app/
HttpCoRRStoreInitNoPrivate(fs, uri) ==
    IF Contains(Chars(uri), HTTP)
    THEN [ok |-> TRUE, exc |-> "none",
          obj |-> [cls |-> "HttpCoRRStore", server_url |-> uri,
                   username |-> <<>>, password |-> <<>>]]
    ELSE LET f == ReadFile(fs, uri)
         IN  IF ~f.exists THEN [ok |-> FALSE, exc |-> "IOError", obj |-> NoStore]
             ELSE IF ~f.json THEN [ok |-> FALSE, exc |-> "ValueError", obj |-> NoStore]
             ELSE [ok |-> TRUE, exc |-> "none",
                   obj |-> [cls |-> "HttpCoRRStore",
                            server_url |->
                                GetOr(f.host, <<>>) \o <<":">> \o GetOr(f.port, <<"80">>)
                                \o GetOr(f.path, <<>>) \o <<"/">>
                                \o GetOr(f.key, <<>>) \o <<"/">> \o GetOr(f.app, <<>>)
                                \o <<"/">>,
                            username |-> <<>>, password |-> <<>>]]

\* HttpCoRRStore.__init__: a URL is kept as given; anything else is the path of
\* a JSON configuration file the private endpoint is built from
HttpCoRRStoreInit(fs, uri) ==
    IF Contains(Chars(uri), HTTP)
    THEN [ok |-> TRUE, exc |-> "none",
          obj |-> [cls |-> "HttpCoRRStore", server_url |-> uri,
                   username |-> <<>>, password |-> <<>>]]
    ELSE LET f == ReadFile(fs, uri)
         IN  IF ~f.exists THEN [ok |-> FALSE, exc |-> "IOError", obj |-> NoStore]
             ELSE IF ~f.json THEN [ok |-> FALSE, exc |-> "ValueError", obj |-> NoStore]
             ELSE [ok |-> TRUE, exc |-> "none",
                   obj |-> [cls |-> "HttpCoRRStore",
                            server_url |->
                                GetOr(f.host, <<>>) \o <<":">> \o GetOr(f.port, <<"80">>)
                                \o GetOr(f.path, <<>>) \o <<"/private/">>
                                \o GetOr(f.key, <<>>) \o <<"/">> \o GetOr(f.app, <<>>)
                                \o <<"/">>,
                            username |-> <<>>, password |-> <<>>]]

\* the local stores take any URI
LocalStoreInit(cls, uri) ==
    [ok |-> TRUE, exc |-> "none",
     obj |-> [cls |-> cls, server_url |-> uri, username |-> <<>>, password |-> <<>>]]

Construct(cls, fs, uri) ==
    CASE cls = "HttpRecordStore" -> HttpRecordStoreInit(uri)
      [] cls = "HttpCoRRStore" -> HttpCoRRStoreInit(fs, uri)
      [] OTHER -> LocalStoreInit(cls, uri)

\* HttpRecordStore.accepts_uri
HttpAcceptsUri(uri) == Take(Chars(uri), 4) = HTTP

\* HttpCoRRStore.accepts_uri: the file at uri can be read and holds the signature
CoRRAcceptsUri(fs, uri) ==
    LET f == ReadFile(fs, uri)
    IN  IF f.exists THEN CoRRSignature \in f.words ELSE FALSE

AcceptsUri(cls, fs, uri) ==
    CASE cls = "HttpRecordStore" -> HttpAcceptsUri(uri)
      [] cls = "HttpCoRRStore" -> CoRRAcceptsUri(fs, uri)
      [] OTHER -> FALSE

(***************************************************************************)
(* The registry: registry.components[RecordStore], in registration order.  *)
(***************************************************************************)
RemoteClasses == {"HttpRecordStore", "HttpCoRRStore"}

\* the order in which http_store.py defines (and so registers) its classes
ImportOrder == <<"HttpRecordStore", "HttpCoRRStore">>

DefaultRecordStore(django) ==
    IF django THEN "DjangoRecordStore" ELSE "ShelveRecordStore"

RECURSIVE LastMatch(_, _, _)
LastMatch(reg, fs, uri) ==
    IF reg = <<>> THEN "none"
    ELSE IF AcceptsUri(reg[Len(reg)], fs, uri) THEN reg[Len(reg)]
    ELSE LastMatch(SubSeq(reg, 1, Len(reg) - 1), fs, uri)

RECURSIVE FirstMatch(_, _, _)
FirstMatch(reg, fs, uri) ==
    IF reg = <<>> THEN "none"
    ELSE IF AcceptsUri(Head(reg), fs, uri) THEN Head(reg)
    ELSE FirstMatch(Tail(reg), fs, uri)

\* the outcome of a constructor with the classes constructed to get it
Built(classes, fs, uri) ==
    Construct(classes[Len(classes)], fs, uri) @@ [built |-> classes]

get_record_store_last(reg, django, fs, uri) ==
    LET cls == LastMatch(reg, fs, uri)
    IN  IF cls # "none" THEN Built(<<cls>>, fs, uri)
        ELSE Built(<<DefaultRecordStore(django)>>, fs, uri)

\* a variant that falls back to the default store when the constructor of
\* the class that accepts the URI raises
get_record_store_fallback(reg, django, fs, uri) ==
    LET cls == FirstMatch(reg, fs, uri)
    IN  IF cls # "none" /\ Construct(cls, fs, uri).ok THEN Built(<<cls>>, fs, uri)
        ELSE IF cls # "none" THEN Built(<<cls, DefaultRecordStore(django)>>, fs, uri)
        ELSE Built(<<DefaultRecordStore(django)>>, fs, uri)

get_record_store(reg, django, fs, uri) ==
    LET cls == FirstMatch(reg, fs, uri)
    IN  IF cls # "none" THEN Built(<<cls>>, fs, uri)
        ELSE Built(<<DefaultRecordStore(django)>>, fs, uri)

(***************************************************************************)
(* Records.  A Record is the canonical in-memory object; encode_record     *)
(* gives the JSON object that goes on the wire and decode_record builds    *)
(* the Record back.                                                        *)
(***************************************************************************)
Projects == {"proj1", "proj2"}

ProjSeq == <<"proj1", "proj2">>

Labels == {"run001", "run002"}

LabelSeq == <<"run001", "run002">>

\* the most platforms (and input data items) a sample record has
MaxItems == 2

TagSeq == <<"alpha", "beta">>

Platform(i) == [system_name |-> "Linux", network_name |-> <<"node", i>>]

DataKey(group, i) == [path |-> <<group, ToString(i)>>, digest |-> <<"sha1", i>>]

\* a sample record with n platforms, n input data items and one output item
Rec(l, n) ==
    [label |-> l,
     tags |-> {TagSeq[i] : i \in 1..(IF n < Len(TagSeq) THEN n ELSE Len(TagSeq))},
     platforms |-> [i \in 1..n |-> Platform(i)],
     input_data |-> [i \in 1..n |-> DataKey("in", i)],
     output_data |-> <<DataKey("out", 1)>>,
     dependencies |-> <<[name |-> "numpy", version |-> "1.9"]>>,
     launch_mode |-> [type |-> "SerialLaunchMode"],
     timestamp |-> IF l = "run001" THEN n + 2 ELSE 1,
     reason |-> <<"trial", n>>,
     duration |-> n,
     executable |-> [name |-> "Python", version |-> "2.7"],
     repository |-> [type |-> "GitRepository", url |-> "repo"],
     main_file |-> "main.py",
     version |-> "abc123",
     parameters |-> [content |-> "a = 1", type |-> "SimpleParameterSet"],
     script_arguments |-> "<parameters>",
     datastore |-> [type |-> "FileSystemDataStore", parameters |-> [root |-> "/data/out"]],
     input_datastore |-> [type |-> "FileSystemDataStore", parameters |-> [root |-> "/data/in"]],
     outcome |-> "",
     stdout_stderr |-> "",
     diff |-> "",
     user |-> "user"]

\* the sample records: none, one and MaxItems platforms; two of one label
Records == {Rec("run001", 0), Rec("run001", MaxItems), Rec("run002", 1)}

NoRec == [label |-> "none"]

\* a set of tags as the list the JSON object holds
TagList(tags) == SelectSeq(TagSeq, LAMBDA t : t \in tags)

TagSet(list) == {list[i] : i \in DOMAIN list}

\* serialization.encode_record
encode_record(r) ==
    [label |-> r.label,
     tags |-> TagList(r.tags),
     platforms |-> r.platforms,
     input_data |-> r.input_data,
     output_data |-> r.output_data,
     dependencies |-> r.dependencies,
     launch_mode |-> r.launch_mode,
     timestamp |-> [datetime |-> r.timestamp],
     reason |-> r.reason,
     duration |-> r.duration,
     executable |-> r.executable,
     repository |-> r.repository,
     main_file |-> r.main_file,
     version |-> r.version,
     parameters |-> r.parameters,
     script_arguments |-> r.script_arguments,
     datastore |-> r.datastore,
     input_datastore |-> r.input_datastore,
     outcome |-> r.outcome,
     stdout_stderr |-> r.stdout_stderr,
     diff |-> r.diff,
     user |-> r.user]

\* serialization.decode_record
decode_record(d) ==
    [label |-> d.label,
     tags |-> TagSet(d.tags),
     platforms |-> d.platforms,
     input_data |-> d.input_data,
     output_data |-> d.output_data,
     dependencies |-> d.dependencies,
     launch_mode |-> d.launch_mode,
     timestamp |-> d.timestamp.datetime,
     reason |-> d.reason,
     duration |-> d.duration,
     executable |-> d.executable,
     repository |-> d.repository,
     main_file |-> d.main_file,
     version |-> d.version,
     parameters |-> d.parameters,
     script_arguments |-> d.script_arguments,
     datastore |-> d.datastore,
     input_datastore |-> d.input_datastore,
     outcome |-> d.outcome,
     stdout_stderr |-> d.stdout_stderr,
     diff |-> d.diff,
     user |-> d.user]

NoWire == [label |-> "none"]

(***************************************************************************)
(* The remote service of the generic REST store: the URL structure and     *)
(* methods the module's docstring requires of it.                          *)
(***************************************************************************)
ServerRoot == <<"http://", "store.example", "/">>

NoProject == [exists |-> FALSE, records |-> [l \in Labels |-> NoWire]]

GEmpty == [p \in Projects |-> NoProject]

NoContent == [kind |-> "none"]

GAnswer(srv, status, content) == [srv |-> srv, status |-> status, content |-> content]

GProjectList(srv) ==
    [kind |-> "project-list",
     projects |-> SelectSeq([i \in 1..Len(ProjSeq) |-> [id |-> ProjSeq[i]]],
                            LAMBDA e : srv[e.id].exists)]

GProjectData(srv, p) ==
    [kind |-> "project", id |-> p,
     records |-> {ServerRoot \o <<p, "/", l, "/">> : l \in {x \in Labels : srv[p].records[x] # NoWire}}]

GServeProject(srv, method, p) ==
    CASE method = "GET" ->
            IF srv[p].exists THEN GAnswer(srv, 200, GProjectData(srv, p))
            ELSE GAnswer(srv, 404, NoContent)
      [] method = "PUT" ->
            IF srv[p].exists THEN GAnswer(srv, 200, NoContent)
            ELSE GAnswer([srv EXCEPT ![p].exists = TRUE], 201, NoContent)
      [] OTHER -> GAnswer(srv, 405, NoContent)

GServeRecord(srv, method, p, l, body) ==
    CASE method = "GET" ->
            IF srv[p].exists /\ srv[p].records[l] # NoWire
            THEN GAnswer(srv, 200, [kind |-> "record", data |-> srv[p].records[l]])
            ELSE GAnswer(srv, 404, NoContent)
      [] method = "PUT" ->
            IF ~srv[p].exists THEN GAnswer(srv, 404, NoContent)
            ELSE GAnswer([srv EXCEPT ![p].records[l] = body],
                         IF srv[p].records[l] = NoWire THEN 201 ELSE 200, NoContent)
      [] method = "DELETE" ->
            IF srv[p].exists /\ srv[p].records[l] # NoWire
            THEN GAnswer([srv EXCEPT ![p].records[l] = NoWire], 204, NoContent)
            ELSE GAnswer(srv, 404, NoContent)
      [] OTHER -> GAnswer(srv, 405, NoContent)

GServe(srv, method, url, body) ==
    IF ~StartsWith(url, ServerRoot) THEN GAnswer(srv, 404, NoContent)
    ELSE LET path == Drop(url, Len(ServerRoot))
         IN  CASE path = <<>> ->
                    IF method = "GET" THEN GAnswer(srv, 200, GProjectList(srv))
                    ELSE GAnswer(srv, 405, NoContent)
               [] Len(path) = 2 /\ path[1] \in Projects /\ path[2] = "/" ->
                    GServeProject(srv, method, path[1])
               [] Len(path) = 4 /\ path[1] \in Projects /\ path[2] = "/"
                  /\ path[3] \in Labels /\ path[4] = "/" ->
                    GServeRecord(srv, method, path[1], path[3], body)
               [] OTHER -> GAnswer(srv, 404, NoContent)

(***************************************************************************)
(* One HTTP exchange.  The service answers the k-th request of an          *)
(* operation as its state says, unless the plan has it fail there: then    *)
(* it answers with the plan's status and does nothing.                     *)
(***************************************************************************)
FaultStatuses == {401, 404, 500}

NoPlan == [at |-> 0, status |-> 0]

Plans(n) == {NoPlan} \cup {[at |-> k, status |-> s] : k \in 1..n, s \in FaultStatuses}

Start(srv, plan) ==
    [srv |-> srv, plan |-> plan, reqs |-> <<>>, status |-> 0, content |-> NoContent]

Request(method, url, type, status) ==
    [method |-> method, url |-> url, type |-> type, status |-> status]

GExchange(st, method, url, type, body) ==
    Bind(IF st.plan.at = Len(st.reqs) + 1
         THEN GAnswer(st.srv, st.plan.status, NoContent)
         ELSE GServe(st.srv, method, url, body), LAMBDA a :
    [st EXCEPT !.srv = a.srv,
               !.reqs = Append(@, Request(method, url, type, a.status)),
               !.status = a.status,
               !.content = a.content])

\* whether an answer of the operation was the plan's and not the service's
Injected(st) == st.plan.at \in 1..Len(st.reqs)

(***************************************************************************)
(* HttpRecordStore.  Every method takes the store object, the exchange     *)
(* state and its arguments, and returns the exchange state with what the   *)
(* method returned (val) or raised (err).                                  *)
(***************************************************************************)
NoVal == [none |-> TRUE]

Return(st, val) == [st |-> st, err |-> "none", val |-> val]

Raise(st, exc) == [st |-> st, err |-> exc, val |-> NoVal]

AccessError == "RecordStoreAccessError"

NotFound == "KeyError"

NoBody == [label |-> "none"]

\* HttpRecordStore._get
HttpGet(self, st, url, media_type) == GExchange(st, "GET", url, media_type, NoBody)

\* HttpRecordStore.list_projects
HttpListProjects(self, st) ==
    Bind(HttpGet(self, st, self.server_url, "project-list"), LAMBDA x :
    IF x.status # 200 THEN Raise(x, AccessError)
    ELSE Return(x, [ids |-> [i \in DOMAIN x.content.projects |-> x.content.projects[i].id]]))

\* HttpRecordStore._put_project
HttpPutProject(self, st, project_name) ==
    GExchange(st, "PUT", self.server_url \o <<project_name, "/">>, "project", NoBody)

\* a create_project that takes the 200 of an existing project for success
HttpCreateProjectLenient(self, st, project_name) ==
    Bind(HttpPutProject(self, st, project_name), LAMBDA x :
    IF x.status \notin {200, 201} THEN Raise(x, AccessError) ELSE Return(x, NoVal))

\* HttpRecordStore.create_project
HttpCreateProject(self, st, project_name) ==
    Bind(HttpPutProject(self, st, project_name), LAMBDA x :
    IF x.status # 201 THEN Raise(x, AccessError) ELSE Return(x, NoVal))

\* HttpRecordStore.has_project
HttpHasProject(self, st, project_name) ==
    Bind(HttpGet(self, st, self.server_url \o <<project_name, "/">>, "project"), LAMBDA x :
    IF x.status = 200 THEN Return(x, [bool |-> TRUE])
    ELSE IF x.status \in {401, 404} THEN Return(x, [bool |-> FALSE])
    ELSE Raise(x, AccessError))

\* a variant that creates the project without asking whether it exists
HttpAlwaysCreateProject(self, st, project_name) ==
    HttpCreateProject(self, st, project_name)

\* the first two lines of save and of sync: create the project when absent
HttpEnsureProject(self, st, project_name) ==
    Bind(HttpHasProject(self, st, project_name), LAMBDA h :
    IF h.err # "none" THEN h
    ELSE IF ~h.val.bool THEN HttpCreateProject(self, h.st, project_name)
    ELSE Return(h.st, NoVal))

\* a variant of the record URL without the closing "/"
HttpRecordUrlNoSlash(self, project_name, label) ==
    self.server_url \o <<project_name, "/", label>>

\* the URL save, get and delete address a record by
HttpRecordUrl(self, project_name, label) ==
    self.server_url \o <<project_name, "/", label, "/">>

\* HttpRecordStore.save after its first two lines: the PUT of the record
HttpPutRecord(self, st, project_name, record) ==
    Bind(GExchange(st, "PUT", HttpRecordUrl(self, project_name, record.label),
                   "record", encode_record(record)), LAMBDA x :
    IF x.status \notin {200, 201} THEN Raise(x, AccessError)
    ELSE Return(x, NoVal))

\* a variant of save that does not look at the status of the PUT
HttpSaveUnchecked(self, st, project_name, record) ==
    Bind(HttpEnsureProject(self, st, project_name), LAMBDA e :
    IF e.err # "none" THEN e
    ELSE Return(GExchange(e.st, "PUT", HttpRecordUrl(self, project_name, record.label),
                          "record", encode_record(record)), NoVal))

\* HttpRecordStore.save
HttpSave(self, st, project_name, record) ==
    Bind(HttpEnsureProject(self, st, project_name), LAMBDA e :
    IF e.err # "none" THEN e
    ELSE Bind(GExchange(e.st, "PUT", HttpRecordUrl(self, project_name, record.label),
                        "record", encode_record(record)), LAMBDA x :
         IF x.status \notin {200, 201} THEN Raise(x, AccessError)
         ELSE Return(x, NoVal)))

\* a variant of _get_record that takes 401 for "not found" as well
HttpGetRecordNotFoundOn401(self, st, url) ==
    Bind(HttpGet(self, st, url, "record"), LAMBDA x :
    IF x.status # 200
    THEN IF x.status \in {401, 404} THEN Raise(x, NotFound) ELSE Raise(x, AccessError)
    ELSE Return(x, [record |-> decode_record(x.content.data)]))

\* HttpRecordStore._get_record
HttpGetRecord(self, st, url) ==
    Bind(HttpGet(self, st, url, "record"), LAMBDA x :
    IF x.status # 200
    THEN IF x.status = 404 THEN Raise(x, NotFound) ELSE Raise(x, AccessError)
    ELSE Return(x, [record |-> decode_record(x.content.data)]))

\* a variant of get that looks in the first project whatever the name
HttpGetOpFirstProject(self, st, project_name, label) ==
    HttpGetRecord(self, st, HttpRecordUrl(self, ProjSeq[1], label))

\* HttpRecordStore.get
HttpGetOp(self, st, project_name, label) ==
    HttpGetRecord(self, st, HttpRecordUrl(self, project_name, label))

\* a variant of delete that takes 404 for success as well
HttpDeleteLenient(self, st, project_name, label) ==
    Bind(GExchange(st, "DELETE", HttpRecordUrl(self, project_name, label), "none", NoBody),
         LAMBDA x :
    IF x.status \notin {204, 404} THEN Raise(x, AccessError) ELSE Return(x, NoVal))

\* HttpRecordStore.delete
HttpDelete(self, st, project_name, label) ==
    Bind(GExchange(st, "DELETE", HttpRecordUrl(self, project_name, label), "none", NoBody),
         LAMBDA x :
    IF x.status # 204 THEN Raise(x, AccessError) ELSE Return(x, NoVal))

(***************************************************************************)
(* The store sync reads from (the argument other): any store, held as the  *)
(* records it has for the project that is synchronised.                    *)
(***************************************************************************)
NoOther == [l \in Labels |-> NoRec]

OtherStores == {o \in [Labels -> Records \cup {NoRec}] : \A l \in Labels : o[l] = NoRec \/ o[l].label = l}

OtherLabels(o, project_name) == {l \in Labels : o[l] # NoRec}

OtherGet(o, project_name, label) == o[label]

\* the sequences that list the elements of a set, each once
Orders(S) == {q \in [1..Cardinality(S) -> S] : \A x \in S : \E i \in DOMAIN q : q[i] = x}

\* a call of the merge on the source store, added to those the sync has made
OnSource(st, op, label) == [st EXCEPT !.source = Append(@, [op |-> op, label |-> label])]

\* a merge that also saves to the source the records only the target holds
MergeBothWays(self, st, o, project_name, order) ==
    LET step[i \in 0..Len(order)] ==
            IF i = 0 THEN Return(OnSource(st, "labels", "none"), NoVal)
            ELSE Bind(step[i - 1], LAMBDA r :
                 IF r.err # "none" THEN r
                 ELSE HttpSave(self, OnSource(r.st, "get", order[i]), project_name,
                               OtherGet(o, project_name, order[i])))
        back[i \in 0..Len(LabelSeq)] ==
            IF i = 0 THEN step[Len(order)]
            ELSE Bind(back[i - 1], LAMBDA r :
                 IF r.err # "none" THEN r
                 ELSE IF /\ OtherGet(o, project_name, LabelSeq[i]) = NoRec
                         /\ r.st.srv[project_name].records[LabelSeq[i]] # NoWire
                      THEN Return(OnSource(r.st, "save", LabelSeq[i]), NoVal)
                      ELSE r)
    IN  back[Len(LabelSeq)]

\* RecordStore.sync, the generic merge: the source is asked for its labels,
\* and every label, in the order the source lists them, is fetched from the
\* source and saved to this store
MergeInto(self, st, o, project_name, order) ==
    LET step[i \in 0..Len(order)] ==
            IF i = 0 THEN Return(OnSource(st, "labels", "none"), NoVal)
            ELSE Bind(step[i - 1], LAMBDA r :
                 IF r.err # "none" THEN r
                 ELSE HttpSave(self, OnSource(r.st, "get", order[i]), project_name,
                               OtherGet(o, project_name, order[i])))
    IN  step[Len(order)]

\* a sync that goes to the generic merge without looking for the project
HttpSyncMergeOnly(self, st, o, project_name, order) ==
    MergeInto(self, st, o, project_name, order)

\* HttpRecordStore.sync
HttpSync(self, st, o, project_name, order) ==
    Bind(HttpEnsureProject(self, st, project_name), LAMBDA e :
    IF e.err # "none" THEN e
    ELSE MergeInto(self, e.st, o, project_name, order))

(***************************************************************************)
(* The CoRR service: every answer is an envelope {code, content}; projects *)
(* and records carry ids the service gives them; a record is a head and a  *)
(* body.body.content.                                                      *)
(***************************************************************************)
CorrRoot == <<"https://corr-root.org", ":", "443", "/api", "/private/", "K", "/", "T", "/">>

\* the most records the CoRR service is filled with
MaxCorrRecords == 2

CEmpty == [projects |-> <<>>, records |-> <<>>, uploads |-> {}]

Envelope(code, content) == [kind |-> "envelope", code |-> code, content |-> content]

CAnswer(srv, status, content) == [srv |-> srv, status |-> status, content |-> content]

CProjectNamed(srv, name) == SelectSeq(srv.projects, LAMBDA q : q.name = name)

CProjectWithId(srv, token) == SelectSeq(srv.projects, LAMBDA q : q.id = token)

CRecordWithId(srv, token) == SelectSeq(srv.records, LAMBDA q : ToString(q.head.id) = token)

HeadKeys == {"label", "tags", "system", "inputs", "outputs", "dependencies", "execution", "status"}

\* the record the service makes of a creation payload
CNewRecord(srv, pid, payload) ==
    [project |-> pid,
     head |-> [id |-> Len(srv.records) + 1]
              @@ [k \in (DOMAIN payload) \cap HeadKeys |-> payload[k]],
     body |-> [body |-> [content |-> [k \in (DOMAIN payload) \ HeadKeys |-> payload[k]]]]]

CServe(srv, method, url, body) ==
    IF ~StartsWith(url, CorrRoot) THEN CAnswer(srv, 404, NoContent)
    ELSE LET path == Drop(url, Len(CorrRoot))
         IN  CASE path = <<"projects">> /\ method = "GET" ->
                    CAnswer(srv, 200, Envelope(200, [projects |-> srv.projects]))
               [] path = <<"project/create">> /\ method = "POST" ->
                    IF CProjectNamed(srv, body.name) # <<>>
                    THEN CAnswer(srv, 200, Envelope(409, NoContent))
                    ELSE LET q == [id |-> ToString(Len(srv.projects) + 1), name |-> body.name,
                                   description |-> body.description]
                         IN  CAnswer([srv EXCEPT !.projects = Append(@, q)], 200,
                                     Envelope(201, q))
               [] Len(path) = 2 /\ path[1] = "project/update/" /\ method = "POST" ->
                    IF CProjectWithId(srv, path[2]) = <<>>
                    THEN CAnswer(srv, 200, Envelope(404, NoContent))
                    ELSE CAnswer([srv EXCEPT !.projects =
                                      [i \in DOMAIN srv.projects |->
                                          IF srv.projects[i].id = path[2]
                                          THEN [srv.projects[i] EXCEPT
                                                   !.description = body.description]
                                          ELSE srv.projects[i]]],
                                 200, Envelope(200, NoContent))
               [] Len(path) = 2 /\ path[1] = "project/record/create/" /\ method = "POST" ->
                    IF CProjectWithId(srv, path[2]) = <<>>
                    THEN CAnswer(srv, 200, Envelope(404, NoContent))
                    ELSE LET r == CNewRecord(srv, CProjectWithId(srv, path[2])[1].id, body)
                         IN  CAnswer([srv EXCEPT !.records = Append(@, r)], 200,
                                     Envelope(201, r))
               [] Len(path) = 2 /\ path[1] = "project/records/" /\ method = "GET" ->
                    IF CProjectWithId(srv, path[2]) = <<>>
                    THEN CAnswer(srv, 200, Envelope(404, NoContent))
                    ELSE CAnswer(srv, 200,
                                 Envelope(200, [records |->
                                     SelectSeq(srv.records,
                                               LAMBDA r : r.project = path[2])]))
               [] Len(path) = 4 /\ path[1] = "file/upload/" /\ path[3] = "/"
                  /\ method = "POST" ->
                    IF CRecordWithId(srv, path[4]) = <<>> THEN CAnswer(srv, 404, NoContent)
                    ELSE CAnswer([srv EXCEPT !.uploads = @ \cup
                                      {[record |-> CRecordWithId(srv, path[4])[1].head.id,
                                        group |-> path[2], file |-> body.file]}],
                                 200, NoContent)
               [] OTHER -> CAnswer(srv, 404, NoContent)

\* a plan of the CoRR service may also fail a request inside the envelope:
\* HTTP status 200 and the plan's status as the envelope's code
\* no method of HttpCoRRStore tells one failing status from another
CorrFaultStatuses == {500}

NoCorrPlan == [at |-> 0, status |-> 0, envelope |-> FALSE]

CorrPlans(n) ==
    {NoCorrPlan} \cup {[at |-> k, status |-> s, envelope |-> e] :
                           k \in 1..n, s \in CorrFaultStatuses, e \in BOOLEAN}

CExchange(st, method, url, type, body) ==
    Bind(IF st.plan.at = Len(st.reqs) + 1
         THEN IF st.plan.envelope
              THEN CAnswer(st.srv, 200, Envelope(st.plan.status, NoContent))
              ELSE CAnswer(st.srv, st.plan.status, NoContent)
         ELSE CServe(st.srv, method, url, body), LAMBDA a :
    [st EXCEPT !.srv = a.srv,
               !.reqs = Append(@, Request(method, url, type, a.status)
                                     @@ [code |-> IF a.content = NoContent THEN 0
                                                  ELSE a.content.code]),
               !.status = a.status,
               !.content = a.content])

(***************************************************************************)
(* HttpCoRRStore.                                                          *)
(***************************************************************************)
\* HttpCoRRStore._get
CoRRGet(self, st, url) == CExchange(st, "GET", url, "json", NoBody)

\* HttpCoRRStore.list_projects
CoRRListProjects(self, st) ==
    Bind(CoRRGet(self, st, self.server_url \o <<"projects">>), LAMBDA x :
    IF x.status # 200 THEN Raise(x, AccessError)
    ELSE IF "projects" \notin DOMAIN x.content.content THEN Raise(x, "KeyError")
    ELSE Return(x, [ids |-> [i \in DOMAIN x.content.content.projects |->
                                x.content.content.projects[i].id]]))

\* HttpCoRRStore._put_project
CoRRPutProject(self, st, project_name) ==
    CExchange(st, "POST", self.server_url \o <<"project/create">>, "json",
              [name |-> project_name, goals |-> "", description |-> ""])

\* HttpCoRRStore.create_project
CoRRCreateProject(self, st, project_name) ==
    Bind(CoRRPutProject(self, st, project_name), LAMBDA x :
    IF x.status # 200 THEN Raise(x, AccessError)
    ELSE IF x.content.code # 201 THEN Raise(x, AccessError)
    ELSE Return(x, [content |-> x.content]))

NoProjectFound == [id |-> "0", name |-> "none", description |-> ""]

\* a lookup that takes the project for the first the service ever made and
\* asks for no listing
CoRRFindProjectAssumed(self, st, project_name) ==
    Return(st, [project |-> [id |-> "1", name |-> project_name, description |-> ""]])

\* the lines every method of HttpCoRRStore that takes a project name starts
\* with: GET the projects, check status and code, take the first project of
\* that name
CoRRFindProject(self, st, project_name) ==
    Bind(CoRRGet(self, st, self.server_url \o <<"projects">>), LAMBDA x :
    IF x.status # 200 THEN Raise(x, AccessError)
    ELSE IF x.content.code # 200 THEN Raise(x, AccessError)
    ELSE Bind(SelectSeq(x.content.content.projects, LAMBDA q : q.name = project_name),
              LAMBDA found :
         Return(x, [project |-> IF found = <<>> THEN NoProjectFound ELSE found[1]])))

\* HttpCoRRStore.update_project_info: the POST goes out only for a project
\* of the listing; its status is checked, the code of its envelope is not
CoRRUpdateProjectInfo(self, st, project_name, description) ==
    Bind(CoRRFindProject(self, st, project_name), LAMBDA f :
    IF f.err # "none" THEN f
    ELSE IF f.val.project = NoProjectFound THEN Return(f.st, NoVal)
    ELSE Bind(CExchange(f.st, "POST",
                        self.server_url \o <<"project/update/", f.val.project.id>>,
                        "json", [goals |-> "", description |-> description]), LAMBDA x :
         IF x.status # 200 THEN Raise(x, AccessError) ELSE Return(x, NoVal)))

\* HttpCoRRStore.project_info
CoRRProjectInfo(self, st, project_name) ==
    Bind(CoRRFindProject(self, st, project_name), LAMBDA f :
    IF f.err # "none" THEN f
    ELSE IF f.val.project = NoProjectFound THEN Raise(f.st, AccessError)
    ELSE Return(f.st, [name |-> f.val.project.name,
                       description |-> f.val.project.description]))

\* HttpCoRRStore.has_project
CoRRHasProject(self, st, project_name) ==
    Bind(CoRRFindProject(self, st, project_name), LAMBDA f :
    IF f.err # "none" THEN f
    ELSE Return(f.st, [bool |-> f.val.project # NoProjectFound]))

\* the creation payload save builds of an encoded record
CoRRPayload(data) ==
    (IF Len(data.platforms) > 0 THEN [system |-> data.platforms[1]] ELSE <<>>)
    @@ [label |-> data.label,
        tags |-> data.tags,
        inputs |-> data.input_data,
        outputs |-> data.output_data,
        dependencies |-> data.dependencies,
        execution |-> data.launch_mode,
        status |-> "finished",
        timestamp |-> data.timestamp,
        reason |-> data.reason,
        duration |-> data.duration,
        executable |-> data.executable,
        repository |-> data.repository,
        main_file |-> data.main_file,
        version |-> data.version,
        parameters |-> data.parameters,
        script_arguments |-> data.script_arguments,
        datastore |-> data.datastore,
        input_datastore |-> data.input_datastore,
        outcome |-> data.outcome,
        stdout_stderr |-> data.stdout_stderr,
        diff |-> data.diff,
        user |-> data.user]

\* a save that takes a record back when an upload of it is not answered with
\* status 200
CoRRUploadOrUndo(self, st, record_id, file_path, group) ==
    IF file_path \in st.unreadable THEN Raise(st, "IOError")
    ELSE Bind(CExchange(st, "POST",
                        self.server_url \o <<"file/upload/", group, "/", ToString(record_id)>>,
                        "multipart", [file |-> file_path]), LAMBDA x :
         IF x.status = 200 THEN Return(x, [status |-> x.status])
         ELSE Raise(CExchange(x, "DELETE",
                              self.server_url \o <<"project/record/delete/",
                                                   ToString(record_id)>>,
                              "json", NoBody), AccessError))

\* HttpCoRRStore._upload_file: open(file_path, 'rb') raises for a file that
\* cannot be opened, before any request; the answer of the POST is returned
CoRRUploadFile(self, st, record_id, file_path, group) ==
    IF file_path \in st.unreadable THEN Raise(st, "IOError")
    ELSE Bind(CExchange(st, "POST",
                        self.server_url \o <<"file/upload/", group, "/", ToString(record_id)>>,
                        "multipart", [file |-> file_path]), LAMBDA x :
         Return(x, [status |-> x.status]))

\* a save that sends the first item of a group only
CoRRUploadFirst(self, st, record_id, root, items, group) ==
    IF items = <<>> THEN Return(st, NoVal)
    ELSE CoRRUploadFile(self, st, record_id, <<root, "/">> \o items[1].path, group)

\* the loops of save over the data items of one group: the answer of
\* _upload_file is dropped, an exception of it ends the loop
CoRRUploadAll(self, st, record_id, root, items, group) ==
    LET step[i \in 0..Len(items)] ==
            IF i = 0 THEN Return(st, NoVal)
            ELSE IF step[i - 1].err # "none" THEN step[i - 1]
            ELSE CoRRUploadFile(self, step[i - 1].st, record_id,
                                <<root, "/">> \o items[i].path, group)
    IN  step[Len(items)]

\* HttpCoRRStore.save
CoRRSave(self, st, project_name, record) ==
    Bind(CoRRFindProject(self, st, project_name), LAMBDA f :
    IF f.err # "none" THEN f
    ELSE Bind(IF f.val.project = NoProjectFound
              THEN CoRRCreateProject(self, f.st, project_name)
              ELSE Return(f.st, [content |-> Envelope(200, f.val.project)]), LAMBDA c :
    IF c.err # "none" THEN c
    ELSE Bind(CoRRPayload(encode_record(record)), LAMBDA payload :
         Bind(CExchange(c.st, "POST",
                        self.server_url \o <<"project/record/create/",
                                             c.val.content.content.id>>,
                        "json", payload), LAMBDA x :
    IF x.status # 200 THEN Raise(x, AccessError)
    ELSE IF x.content.code # 201 THEN Raise(x, AccessError)
    ELSE Bind(CoRRUploadAll(self, x, x.content.content.head.id,
                            payload.input_datastore.parameters.root,
                            payload.inputs, "input"), LAMBDA u :
    IF u.err # "none" THEN u
    ELSE Bind(CoRRUploadAll(self, u.st, x.content.content.head.id,
                            payload.datastore.parameters.root,
                            payload.outputs, "output"), LAMBDA v :
    IF v.err # "none" THEN v
    ELSE Return(v.st, NoVal)))))))

\* the JSON object _get_record makes of one record of the listing
CoRRContent(r) ==
    [label |-> r.head.label,
     tags |-> r.head.tags,
     platforms |-> <<r.head.system>>,
     input_data |-> r.head.inputs,
     output_data |-> r.head.outputs,
     dependencies |-> r.head.dependencies,
     launch_mode |-> r.head.execution,
     timestamp |-> r.body.body.content.timestamp,
     reason |-> r.body.body.content.reason,
     duration |-> r.body.body.content.duration,
     executable |-> r.body.body.content.executable,
     repository |-> r.body.body.content.repository,
     main_file |-> r.body.body.content.main_file,
     version |-> r.body.body.content.version,
     parameters |-> r.body.body.content.parameters,
     script_arguments |-> r.body.body.content.script_arguments,
     datastore |-> r.body.body.content.datastore,
     input_datastore |-> r.body.body.content.input_datastore,
     outcome |-> r.body.body.content.outcome,
     stdout_stderr |-> r.body.body.content.stdout_stderr,
     diff |-> r.body.body.content.diff,
     user |-> r.body.body.content.user]

\* the decoding _get_record applies to a record of a response: it reads the
\* fields under body.body.content and fails on a record that has none
CoRRDecode(r) ==
    IF "body" \notin DOMAIN r.body \/ "system" \notin DOMAIN r.head
    THEN [err |-> "KeyError", record |-> NoRec]
    ELSE [err |-> "none", record |-> decode_record(CoRRContent(r))]

NoLabel == "None"

\* the records _get_record keeps of the listing: all of them for no label,
\* else the first of that label
CoRRKeep(all, label) ==
    IF label = NoLabel THEN all
    ELSE Bind(SelectSeq(all, LAMBDA r : r.head.label = label), LAMBDA match :
         IF match = <<>> THEN <<>> ELSE <<match[1]>>)

\* HttpCoRRStore._get_record
CoRRGetRecord(self, st, project_id, label) ==
    Bind(CoRRGet(self, st, self.server_url \o <<"project/records/", project_id>>),
         LAMBDA x :
    IF x.status # 200 THEN Raise(x, AccessError)
    ELSE IF x.content.code # 200 THEN Raise(x, AccessError)
    ELSE Bind(CoRRKeep(x.content.content.records, label), LAMBDA records :
         IF Len(records) = 0 THEN Raise(x, AccessError)
         ELSE IF \E i \in DOMAIN records : "system" \notin DOMAIN records[i].head
         THEN Raise(x, "KeyError")
         ELSE Return(x, [record |-> decode_record(CoRRContent(records[1]))])))

\* HttpCoRRStore.get
CoRRGetOp(self, st, project_name, label) ==
    Bind(CoRRFindProject(self, st, project_name), LAMBDA f :
    IF f.err # "none" THEN f
    ELSE IF f.val.project # NoProjectFound
    THEN CoRRGetRecord(self, f.st, f.val.project.id, label)
    ELSE Raise(f.st, AccessError))

\* HttpCoRRStore.list: _get_record without a label, which returns one record
\* (the first of the listing) and raises the access error for an empty listing
CoRRList(self, st, project_name) ==
    Bind(CoRRFindProject(self, st, project_name), LAMBDA f :
    IF f.err # "none" THEN f
    ELSE IF f.val.project # NoProjectFound
    THEN CoRRGetRecord(self, f.st, f.val.project.id, NoLabel)
    ELSE Raise(f.st, AccessError))

\* HttpCoRRStore.labels: [list_recs.label] of the one record list returns;
\* for a value without a label the except branch falls through to None
CoRRLabels(self, st, project_name) ==
    Bind(CoRRList(self, st, project_name), LAMBDA r :
    IF r.err # "none" THEN r
    ELSE IF "record" \in DOMAIN r.val
    THEN Return(r.st, [labels |-> <<r.val.record.label>>])
    ELSE Return(r.st, NoVal))

\* HttpCoRRStore.most_recent: the loop over what list returned.  A record is
\* no sequence to iterate; on a sequence of two or more the comparison reads
\* the names datetime, timestamp1 and timestamp2, which nothing defines
CoRRMostRecent(self, st, project_name) ==
    Bind(CoRRList(self, st, project_name), LAMBDA r :
    IF r.err # "none" THEN r
    ELSE IF "records" \notin DOMAIN r.val THEN Raise(r.st, "TypeError")
    ELSE IF Len(r.val.records) = 0 THEN Raise(r.st, "TypeError")
    ELSE IF Len(r.val.records) >= 2 THEN Raise(r.st, "NameError")
    ELSE Return(r.st, [label |-> r.val.records[1].label]))

\* HttpRecordStore.clear, backup, remove: a warning and nothing else
HttpWarn(self, st) == Return(st, NoVal)

\* HttpCoRRStore.sync: has_project, create_project when absent, and then
\* super(HttpRecordStore, self): HttpCoRRStore derives from RecordStore and
\* not from HttpRecordStore, so super() raises TypeError and the merge of the
\* base class is never entered
CoRRSync(self, st, o, project_name) ==
    Bind(CoRRHasProject(self, st, project_name), LAMBDA h :
    IF h.err # "none" THEN h
    ELSE Bind(IF ~h.val.bool THEN CoRRCreateProject(self, h.st, project_name)
              ELSE Return(h.st, NoVal), LAMBDA c :
    IF c.err # "none" THEN c
    ELSE Raise(c.st, "TypeError")))

\* HttpCoRRStore.clear, backup, remove: a warning (remove: not even that) and
\* nothing else
CoRRWarn(self, st) == Return(st, NoVal)

\* a variant of delete that asks the service to delete
CoRRDeleteRequested(self, st, project_name, label) ==
    Return(CExchange(st, "DELETE", self.server_url \o <<"project/record/delete/", label>>,
                     "json", NoBody), NoVal)

\* HttpCoRRStore.delete
CoRRDelete(self, st, project_name, label) == Return(st, NoVal)

\* HttpCoRRStore.delete_by_tag
CoRRDeleteByTag(self, st, project_name, tag) == Return(st, [count |-> 0])

(***************************************************************************)
(* The state: the registry, the environment (have_django, files), the      *)
(* store object the caller holds, the two remote services, the call that   *)
(* has just returned (last) and what the caller keeps of the call before   *)
(* it (prev).                                                              *)
(***************************************************************************)
NoArg == [project |-> "none", label |-> "none", record |-> NoRec, other |-> NoOther, uri |-> <<>>]

NoPrev == [op |-> "none", arg |-> NoArg, status |-> 0, overwrote |-> FALSE]

Arg(project_name, label, record, o) ==
    [project |-> project_name, label |-> label, record |-> record, other |-> o, uri |-> <<>>]

Call(op, arg, r, pre) ==
    [op |-> op, arg |-> arg, err |-> r.err, val |-> r.val, reqs |-> r.st.reqs,
     injected |-> Injected(r.st), pre |-> pre,
     source |-> IF "source" \in DOMAIN r.st THEN r.st.source ELSE <<>>]

NoCall ==
    [op |-> "none", arg |-> NoArg, err |-> "none", val |-> NoVal, reqs |-> <<>>,
     injected |-> FALSE, pre |-> NoProject, source |-> <<>>]

LastStatus(l) == IF l.reqs = <<>> THEN 0 ELSE l.reqs[Len(l.reqs)].status

\* what the caller keeps of a call: a successful save, delete or sync that
\* reached the service, the status of its last request and whether a save
\* replaced other content; of a sync that raised, that it failed
Summary(l) ==
    IF l.err = "none" /\ l.op \in {"save", "delete", "sync"} /\ l.reqs # <<>>
    THEN [op |-> l.op, arg |-> l.arg, status |-> LastStatus(l),
          overwrote |-> /\ l.op = "save"
                        /\ l.pre.records[l.arg.label] \notin {NoWire, encode_record(l.arg.record)}]
    ELSE IF l.err # "none" /\ l.op = "sync" /\ l.reqs # <<>>
    THEN [op |-> "sync_failed", arg |-> l.arg, status |-> 0, overwrote |-> FALSE]
    ELSE NoPrev

\* the call before is of interest to a get or delete of the record it wrote,
\* and to a sync of the same project from the same source
Before(op, arg) ==
    IF \/ /\ prev.op \in {"save", "delete"}
          /\ op \in {"get", "delete"}
          /\ prev.arg.project = arg.project
          /\ prev.arg.label = arg.label
       \/ /\ prev.op \in {"sync", "sync_failed"}
          /\ op = "sync"
          /\ prev.arg.project = arg.project
          /\ prev.arg.other = arg.other
    THEN prev
    ELSE NoPrev

StdFiles == [f \in FilePaths |-> IF f = <<"corr.json">> THEN CorrConfig ELSE NoFile]

SessionURIs == {<<"http://", "store.example">>, <<"corr.json">>}

\* the callers that share the store object in a session of concurrent saves,
\* and what each has done of its save: where it stands, the requests it has
\* issued and what save raised
Callers == {1, 2}

NoCaller == [pc |-> "none", project |-> "none", record |-> NoRec, reqs |-> <<>>, err |-> "none"]

NoCallers == [c \in Callers |-> NoCaller]

IsHttp == store.cls = "HttpRecordStore"

IsCoRR == store.cls = "HttpCoRRStore"

Idle == last.op = "none"

Init ==
    /\ registered = ImportOrder
    /\ have_django = FALSE
    /\ files = StdFiles
    /\ store \in {get_record_store(ImportOrder, FALSE, StdFiles, uri).obj : uri \in SessionURIs}
    /\ gsrv = GEmpty
    /\ csrv = CEmpty
    /\ last = NoCall
    /\ prev = NoPrev
    /\ callers = NoCallers

Env == <<registered, have_django, files, store>>

\* the call has returned: the caller goes on, keeping its summary
Continue ==
    /\ ~Idle
    /\ last.op # "get_record_store"
    /\ last' = NoCall
    /\ prev' = Summary(last)
    /\ UNCHANGED <<Env, gsrv, csrv, callers>>

(***************************************************************************)
(* Calls on the generic REST store.                                        *)
(***************************************************************************)
HttpDo(op, arg, r, pre) ==
    /\ gsrv' = r.st.srv
    /\ last' = Call(op, arg, r, pre)
    /\ prev' = Before(op, arg)
    /\ UNCHANGED <<Env, csrv, callers>>

HttpListProjectsCall(plan) ==
    /\ IsHttp /\ Idle
    /\ HttpDo("list_projects", NoArg, HttpListProjects(store, Start(gsrv, plan)), NoProject)

HttpCreateProjectCall(p, plan) ==
    /\ IsHttp /\ Idle
    /\ HttpDo("create_project", Arg(p, "none", NoRec, NoOther),
              HttpCreateProject(store, Start(gsrv, plan), p), NoProject)

HttpHasProjectCall(p, plan) ==
    /\ IsHttp /\ Idle
    /\ HttpDo("has_project", Arg(p, "none", NoRec, NoOther),
              HttpHasProject(store, Start(gsrv, plan), p), NoProject)

HttpSaveCall(p, r, plan) ==
    /\ IsHttp /\ Idle
    /\ HttpDo("save", Arg(p, r.label, r, NoOther),
              HttpSave(store, Start(gsrv, plan), p, r), gsrv[p])

HttpGetCall(p, l, plan) ==
    /\ IsHttp /\ Idle
    /\ HttpDo("get", Arg(p, l, NoRec, NoOther),
              HttpGetOp(store, Start(gsrv, plan), p, l), NoProject)

HttpDeleteCall(p, l, plan) ==
    /\ IsHttp /\ Idle
    /\ HttpDo("delete", Arg(p, l, NoRec, NoOther),
              HttpDelete(store, Start(gsrv, plan), p, l), NoProject)

HttpSyncCall(p, o, order, plan) ==
    /\ IsHttp /\ Idle
    /\ HttpDo("sync", Arg(p, "none", NoRec, o),
              HttpSync(store, Start(gsrv, plan) @@ [source |-> <<>>], o, p, order), gsrv[p])

HttpWarnCall(op) ==
    /\ IsHttp /\ Idle
    /\ HttpDo(op, NoArg, HttpWarn(store, Start(gsrv, NoPlan)), NoProject)

(***************************************************************************)
(* Calls on the CoRR store.                                                *)
(***************************************************************************)
CoRRDo(op, arg, r) ==
    /\ csrv' = r.st.srv
    /\ last' = Call(op, arg, r,
                    [NoProject EXCEPT !.exists = CProjectNamed(csrv, arg.project) # <<>>])
    /\ prev' = Before(op, arg)
    /\ UNCHANGED <<Env, gsrv, callers>>

CoRRListProjectsCall(plan) ==
    /\ IsCoRR /\ Idle
    /\ CoRRDo("list_projects", NoArg, CoRRListProjects(store, Start(csrv, plan)))

CoRRHasProjectCall(p, plan) ==
    /\ IsCoRR /\ Idle
    /\ CoRRDo("has_project", Arg(p, "none", NoRec, NoOther),
              CoRRHasProject(store, Start(csrv, plan), p))

\* the paths save opens for the data items of a record
DataPaths(r) ==
    {<<r.input_datastore.parameters.root, "/">> \o r.input_data[i].path :
        i \in DOMAIN r.input_data}
    \cup {<<r.datastore.parameters.root, "/">> \o r.output_data[i].path :
              i \in DOMAIN r.output_data}

\* the files of a save that cannot be opened: none, or one data file of the
\* record while the service answers every request itself
Unreadable(r, plan) ==
    {{}} \cup (IF plan = NoCorrPlan THEN {{f} : f \in DataPaths(r)} ELSE {})

CoRRSaveCall(p, r, plan, unreadable) ==
    /\ IsCoRR /\ Idle
    /\ Len(csrv.records) < MaxCorrRecords
    /\ CoRRDo("save", Arg(p, r.label, r, NoOther),
              CoRRSave(store, Start(csrv, plan) @@ [unreadable |-> unreadable], p, r))

CoRRGetCall(p, l, plan) ==
    /\ IsCoRR /\ Idle
    /\ CoRRDo("get", Arg(p, l, NoRec, NoOther), CoRRGetOp(store, Start(csrv, plan), p, l))

CoRRDeleteCall(p, l) ==
    /\ IsCoRR /\ Idle
    /\ CoRRDo("delete", Arg(p, l, NoRec, NoOther),
              CoRRDelete(store, Start(csrv, NoCorrPlan), p, l))

CoRRDeleteByTagCall(p, tag) ==
    /\ IsCoRR /\ Idle
    /\ CoRRDo("delete_by_tag", Arg(p, "none", NoRec, NoOther),
              CoRRDeleteByTag(store, Start(csrv, NoCorrPlan), p, tag))

CoRRWarnCall(op) ==
    /\ IsCoRR /\ Idle
    /\ CoRRDo(op, NoArg, CoRRWarn(store, Start(csrv, NoCorrPlan)))

\* the most requests a call of each kind issues
SaveRequests == 3

SyncRequests == 2 + 2 * Cardinality(Labels)

CoRRSaveRequests == 3 + MaxItems + 1

Unsupported == {"clear", "backup", "remove"}

HttpCalls ==
    \/ \E plan \in Plans(1) : HttpListProjectsCall(plan)
    \/ \E p \in Projects, plan \in Plans(1) : HttpCreateProjectCall(p, plan)
    \/ \E p \in Projects, plan \in Plans(1) : HttpHasProjectCall(p, plan)
    \/ \E p \in Projects, r \in Records, plan \in Plans(SaveRequests) : HttpSaveCall(p, r, plan)
    \/ \E p \in Projects, l \in Labels, plan \in Plans(1) : HttpGetCall(p, l, plan)
    \/ \E p \in Projects, l \in Labels, plan \in Plans(1) : HttpDeleteCall(p, l, plan)
    \/ \E p \in Projects, o \in OtherStores : \E order \in Orders(OtherLabels(o, p)) :
          \E plan \in Plans(SyncRequests) : HttpSyncCall(p, o, order, plan)
    \/ \E op \in Unsupported : HttpWarnCall(op)

CoRRCalls ==
    \/ \E plan \in CorrPlans(1) : CoRRListProjectsCall(plan)
    \/ \E p \in Projects, plan \in CorrPlans(1) : CoRRHasProjectCall(p, plan)
    \/ \E p \in Projects, r \in Records, plan \in CorrPlans(CoRRSaveRequests) :
          CoRRSaveCall(p, r, plan, {})
    \/ \E p \in Projects, l \in Labels, plan \in CorrPlans(2) : CoRRGetCall(p, l, plan)
    \/ \E p \in Projects, l \in Labels : CoRRDeleteCall(p, l)
    \/ \E p \in Projects : CoRRDeleteByTagCall(p, TagSeq[1])
    \/ \E op \in Unsupported : CoRRWarnCall(op)

\* a session with either remote store
Next ==
    \/ Continue
    \/ HttpCalls
    \/ CoRRCalls

Spec == Init /\ [][Next]_vars

\* a session that fills the CoRR service and reads it back: the saves fail at
\* most before the uploads
InitCoRR == Init /\ IsCoRR

CoRRListCall(p, plan) ==
    /\ IsCoRR /\ Idle
    /\ CoRRDo("list", Arg(p, "none", NoRec, NoOther), CoRRList(store, Start(csrv, plan), p))

CoRRLabelsCall(p, plan) ==
    /\ IsCoRR /\ Idle
    /\ CoRRDo("labels", Arg(p, "none", NoRec, NoOther),
              CoRRLabels(store, Start(csrv, plan), p))

CoRRMostRecentCall(p, plan) ==
    /\ IsCoRR /\ Idle
    /\ CoRRDo("most_recent", Arg(p, "none", NoRec, NoOther),
              CoRRMostRecent(store, Start(csrv, plan), p))

NextCoRRRead ==
    \/ Continue
    \/ \E p \in Projects, r \in Records, plan \in CorrPlans(3) : CoRRSaveCall(p, r, plan, {})
    \/ \E p \in Projects, plan \in CorrPlans(2) : CoRRListCall(p, plan)
    \/ \E p \in Projects, plan \in CorrPlans(2) : CoRRLabelsCall(p, plan)
    \/ \E p \in Projects, plan \in CorrPlans(2) : CoRRMostRecentCall(p, plan)

SpecCoRRRead == InitCoRR /\ [][NextCoRRRead]_vars

\* a session of saves to the CoRR store: a fault at any request of a save, or
\* a data file of the record that cannot be opened
NextCoRRSave ==
    \/ Continue
    \/ \E p \in Projects, r \in Records, plan \in CorrPlans(CoRRSaveRequests) :
          \E unreadable \in Unreadable(r, plan) : CoRRSaveCall(p, r, plan, unreadable)

SpecCoRRSave == InitCoRR /\ [][NextCoRRSave]_vars

CoRRSyncCall(p, o, plan) ==
    /\ IsCoRR /\ Idle
    /\ CoRRDo("sync", Arg(p, "none", NoRec, o), CoRRSync(store, Start(csrv, plan), o, p))

\* a session of syncs into the CoRR store
NextCoRRSync ==
    \/ Continue
    \/ \E p \in Projects, o \in OtherStores, plan \in CorrPlans(2) : CoRRSyncCall(p, o, plan)

SpecCoRRSync == InitCoRR /\ [][NextCoRRSync]_vars

Descriptions == {"", "trial runs"}

CoRRProjectInfoCall(p, plan) ==
    /\ IsCoRR /\ Idle
    /\ CoRRDo("project_info", Arg(p, "none", NoRec, NoOther),
              CoRRProjectInfo(store, Start(csrv, plan), p))

CoRRUpdateProjectInfoCall(p, description, plan) ==
    /\ IsCoRR /\ Idle
    /\ CoRRDo("update_project_info", Arg(p, "none", NoRec, NoOther),
              CoRRUpdateProjectInfo(store, Start(csrv, plan), p, description))

\* the operations of HttpCoRRStore that take the name of a project
ByName ==
    {"save", "get", "list", "labels", "most_recent", "has_project", "project_info",
     "update_project_info"}

\* a session of these operations on the CoRR store; the listing of the
\* projects, the first request of each, may fail
NextCoRRByName ==
    \/ Continue
    \/ \E p \in Projects, r \in Records, plan \in CorrPlans(3) : CoRRSaveCall(p, r, plan, {})
    \/ \E p \in Projects, l \in Labels, plan \in CorrPlans(1) : CoRRGetCall(p, l, plan)
    \/ \E p \in Projects, plan \in CorrPlans(1) : CoRRListCall(p, plan)
    \/ \E p \in Projects, plan \in CorrPlans(1) : CoRRLabelsCall(p, plan)
    \/ \E p \in Projects, plan \in CorrPlans(1) : CoRRMostRecentCall(p, plan)
    \/ \E p \in Projects, plan \in CorrPlans(1) : CoRRHasProjectCall(p, plan)
    \/ \E p \in Projects, plan \in CorrPlans(1) : CoRRProjectInfoCall(p, plan)
    \/ \E p \in Projects, d \in Descriptions, plan \in CorrPlans(1) :
          CoRRUpdateProjectInfoCall(p, d, plan)

SpecCoRRByName == InitCoRR /\ [][NextCoRRByName]_vars

(***************************************************************************)
(* Two callers share the generic REST store and each runs save(P, R), for  *)
(* the same project and records of different labels.  The store holds no   *)
(* lock and save is a sequence of blocking requests, so the requests of    *)
(* the two saves reach the service in any interleaving; one step is one    *)
(* request of one caller with what save does on its answer.                *)
(***************************************************************************)
InitRace ==
    /\ registered = ImportOrder
    /\ have_django = FALSE
    /\ files = StdFiles
    /\ store = get_record_store(ImportOrder, FALSE, StdFiles, <<"http://", "store.example">>).obj
    /\ gsrv = GEmpty
    /\ csrv = CEmpty
    /\ last = NoCall
    /\ prev = NoPrev
    /\ \E p \in Projects, r1 \in Records, r2 \in Records :
          /\ r1.label # r2.label
          /\ callers = [c \in Callers |->
                           [NoCaller EXCEPT !.pc = "has_project", !.project = p,
                                            !.record = IF c = 1 THEN r1 ELSE r2]]

\* one request of the save of caller c was answered: the service and what the
\* caller has issued move on, and the caller is at pc or out of save with err
RaceStep(c, r, pc) ==
    /\ gsrv' = r.st.srv
    /\ callers' = [callers EXCEPT ![c].reqs = @ \o r.st.reqs,
                                   ![c].err = r.err,
                                   ![c].pc = IF r.err # "none" THEN "raised" ELSE pc]
    /\ UNCHANGED <<Env, csrv, last, prev>>

\* save, line 1: if not self.has_project(project_name)
RaceHasProject(c) ==
    /\ callers[c].pc = "has_project"
    /\ Bind(HttpHasProject(store, Start(gsrv, NoPlan), callers[c].project), LAMBDA r :
            RaceStep(c, r, IF r.err = "none" /\ ~r.val.bool THEN "create_project"
                           ELSE "put_record"))

\* save, line 2: self.create_project(project_name)
RaceCreateProject(c) ==
    /\ callers[c].pc = "create_project"
    /\ RaceStep(c, HttpCreateProject(store, Start(gsrv, NoPlan), callers[c].project),
                "put_record")

\* save, the rest: the PUT of the record
RacePutRecord(c) ==
    /\ callers[c].pc = "put_record"
    /\ RaceStep(c, HttpPutRecord(store, Start(gsrv, NoPlan), callers[c].project,
                                 callers[c].record),
                "returned")

NextRace ==
    \/ \E c \in Callers : RaceHasProject(c)
    \/ \E c \in Callers : RaceCreateProject(c)
    \/ \E c \in Callers : RacePutRecord(c)

SpecRace == InitRace /\ [][NextRace]_vars

\* a session with the generic REST store
InitHttp == Init /\ IsHttp

NextHttp ==
    \/ Continue
    \/ HttpCalls

SpecHttp == InitHttp /\ [][NextHttp]_vars

(***************************************************************************)
(* The registry at work: classes register in any order, and the caller     *)
(* asks for the store of a URI.                                            *)
(***************************************************************************)
FileSystems == [FilePaths -> FileContents]

InitRegistry ==
    /\ registered = <<>>
    /\ have_django \in BOOLEAN
    /\ files \in FileSystems
    /\ store = NoStore
    /\ gsrv = GEmpty
    /\ csrv = CEmpty
    /\ last = NoCall
    /\ prev = NoPrev
    /\ callers = NoCallers

\* conditional_component: the class joins the registered components
Register(cls) ==
    /\ \A i \in DOMAIN registered : registered[i] # cls
    /\ registered' = Append(registered, cls)
    /\ last' = NoCall
    /\ UNCHANGED <<have_django, files, store, gsrv, csrv, prev, callers>>

GetRecordStore(uri) ==
    /\ Bind(get_record_store(registered, have_django, files, uri), LAMBDA r :
            /\ store' = r.obj
            /\ last' = [NoCall EXCEPT !.op = "get_record_store", !.arg.uri = uri,
                                      !.err = r.exc, !.val = [built |-> r.built]])
    /\ UNCHANGED <<registered, have_django, files, gsrv, csrv, prev, callers>>

\* the caller constructs the CoRR store itself: HttpCoRRStore(server_url)
NewCoRRStore(uri) ==
    /\ Bind(Construct("HttpCoRRStore", files, uri), LAMBDA r :
            /\ store' = r.obj
            /\ last' = [NoCall EXCEPT !.op = "HttpCoRRStore", !.arg.uri = uri,
                                      !.err = r.exc])
    /\ UNCHANGED <<registered, have_django, files, gsrv, csrv, prev, callers>>

NextRegistry ==
    \/ \E cls \in RemoteClasses : Register(cls)
    \/ \E uri \in URIs : GetRecordStore(uri)
    \/ \E uri \in URIs : NewCoRRStore(uri)

SpecRegistry == InitRegistry /\ [][NextRegistry]_vars

(***************************************************************************)
(* Properties.                                                             *)
(***************************************************************************)
Min(S) == CHOOSE x \in S : \A y \in S : x <= y

\* the places in the registry of the classes that accept the URI of the last
\* get_record_store
Accepting == {i \in DOMAIN registered : AcceptsUri(registered[i], files, last.arg.uri)}

\* C1: get_record_store returns an instance of the first registered class, in
\* registration order, whose accepts_uri(uri) is true, also when several
\* accept; when none accepts it returns an instance of the default store.
C1_FirstAcceptingChosen ==
    last.op = "get_record_store" =>
        IF Accepting = {}
        THEN last.err = "none" /\ store.cls = DefaultRecordStore(have_django)
        ELSE last.err = "none" => store.cls = registered[Min(Accepting)]

\* two registered classes accept the URI, and the first of them was returned
C1_Witness_TwoAccept ==
    /\ last.op = "get_record_store"
    /\ last.err = "none"
    /\ Cardinality(Accepting) = 2
    /\ store.cls = registered[1]
    /\ store.cls = "HttpCoRRStore"

\* C2: after sync(other, P) on the generic REST store has returned without
\* error, every label the source holds in P is in the target's project P, and
\* the record the target holds decodes to the source's record.
C2_SyncCopiesSource ==
    (IsHttp /\ last.op = "sync" /\ last.err = "none") =>
        /\ gsrv[last.arg.project].exists
        /\ \A l \in OtherLabels(last.arg.other, last.arg.project) :
              /\ gsrv[last.arg.project].records[l] # NoWire
              /\ decode_record(gsrv[last.arg.project].records[l])
                    = OtherGet(last.arg.other, last.arg.project, l)

\* a sync of two records has returned, and one of them replaced a different
\* record the target held under the same label
C2_Witness_SyncReplaced ==
    /\ IsHttp
    /\ last.op = "sync"
    /\ last.err = "none"
    /\ OtherLabels(last.arg.other, last.arg.project) = Labels
    /\ \E l \in Labels :
          /\ last.pre.records[l] # NoWire
          /\ last.pre.records[l] # gsrv[last.arg.project].records[l]

\* C3: a sync(other, P) that directly follows a successful sync(other, P), the
\* service answering every request itself, raises no error and leaves the
\* target's records of P as they were: the same labels, each with the same
\* content.
C3_ResyncChangesNothing ==
    (IsHttp /\ last.op = "sync" /\ prev.op = "sync" /\ ~last.injected) =>
        /\ last.err = "none"
        /\ gsrv[last.arg.project] = last.pre

\* the second of two syncs of a source with two records has returned
C3_Witness_SecondSync ==
    /\ IsHttp
    /\ last.op = "sync"
    /\ prev.op = "sync"
    /\ ~last.injected
    /\ last.err = "none"
    /\ OtherLabels(last.arg.other, last.arg.project) = Labels
    /\ Len(last.reqs) = 1 + 2 * Cardinality(Labels)

\* C4: on the generic REST store a get(P, L) that directly follows a
\* successful save(P, R), R of label L, returns a record equal to R; this is so
\* too when the save replaced another record of that label.
C4_SaveThenGetReturnsRecord ==
    (IsHttp /\ last.op = "get" /\ prev.op = "save" /\ ~last.injected) =>
        /\ last.err = "none"
        /\ last.val.record = prev.arg.record

\* a get has returned the record of a save that replaced a different record
C4_Witness_GetAfterOverwrite ==
    /\ IsHttp
    /\ last.op = "get"
    /\ prev.op = "save"
    /\ prev.overwrote
    /\ prev.status = 200
    /\ ~last.injected
    /\ last.val.record = prev.arg.record

\* C5: on the CoRR store a get(P, L) that directly follows a successful
\* save(P, R), R of label L and the only record the service holds, returns a
\* record equal to R, whatever the number of platforms of R.
C5_CoRRSaveThenGetReturnsRecord ==
    (IsCoRR /\ last.op = "get" /\ prev.op = "save" /\ ~last.injected
     /\ Len(csrv.records) = 1) =>
        /\ last.err = "none"
        /\ last.val.record = prev.arg.record

\* what has_project(name) and list_projects() return in the current state of
\* the service of the store in use, every request answered by the service
HasProjectNow(name) ==
    IF IsCoRR THEN CoRRHasProject(store, Start(csrv, NoCorrPlan), name).val.bool
    ELSE HttpHasProject(store, Start(gsrv, NoPlan), name).val.bool

ListedNow ==
    Bind(IF IsCoRR THEN CoRRListProjects(store, Start(csrv, NoCorrPlan)).val.ids
         ELSE HttpListProjects(store, Start(gsrv, NoPlan)).val.ids, LAMBDA ids :
    {ids[i] : i \in DOMAIN ids})

\* C6: for either remote store, in every state of its service, has_project(N)
\* is true exactly when N is an element of what list_projects() returns.
C6_HasProjectIffListed ==
    \A name \in Projects : HasProjectNow(name) <=> name \in ListedNow

\* C7: on the generic REST store delete(P, L) returns without error exactly
\* when the service answered 204 and raises the access error otherwise; a
\* get(P, L) that directly follows a successful delete(P, L), answered by the
\* service itself, raises NotFound.
C7_DeleteThenGetNotFound ==
    /\ (IsHttp /\ last.op = "delete") =>
          /\ Len(last.reqs) = 1
          /\ last.err = "none" <=> LastStatus(last) = 204
          /\ last.err # "none" => last.err = AccessError
    /\ (IsHttp /\ last.op = "get" /\ prev.op = "delete" /\ ~last.injected) =>
          last.err = NotFound

\* a get that follows a successful delete of the record has raised NotFound
C7_Witness_GetAfterDelete ==
    /\ IsHttp
    /\ last.op = "get"
    /\ prev.op = "delete"
    /\ prev.status = 204
    /\ ~last.injected
    /\ last.err = NotFound

\* what get(p, l) returns or raises in a state of the services, every request
\* answered by the service
GetOf(g, c, p, l) ==
    IF IsCoRR
    THEN Bind(CoRRGetOp(store, Start(c, NoCorrPlan), p, l), LAMBDA r : <<r.err, r.val>>)
    ELSE Bind(HttpGetOp(store, Start(g, NoPlan), p, l), LAMBDA r : <<r.err, r.val>>)

C9_GetByStatus ==
    (IsHttp /\ last.op = "get") =>
        /\ Len(last.reqs) = 1
        /\ LastStatus(last) = 200 =>
              /\ last.err = "none"
              /\ last.val.record
                    = decode_record(gsrv[last.arg.project].records[last.arg.label])
        /\ LastStatus(last) = 404 <=> last.err = NotFound
        /\ LastStatus(last) \notin {200, 404} => last.err = AccessError
        /\ NotFound # AccessError

\* a get of a record the service holds was answered 401 and raised the access
\* error
C9_Witness_GetDenied ==
    /\ IsHttp
    /\ last.op = "get"
    /\ LastStatus(last) = 401
    /\ last.err = AccessError
    /\ gsrv[last.arg.project].records[last.arg.label] # NoWire

\* the requests of the last call that carry a record
RecordWrites == SelectSeq(last.reqs, LAMBDA q : q.type = "record")

\* C10: on the generic REST store save(P, R) writes the record by one PUT to
\* <server_url><P>/<label of R>/, its last request; it returns without error
\* exactly when that PUT was answered 200 or 201, and raises the access error
\* on any other answer to it.
C10_SaveWritesByPut ==
    (IsHttp /\ last.op = "save") =>
        /\ store.server_url = <<"http://", "store.example", "/">>
        /\ Len(RecordWrites) <= 1
        /\ \A i \in DOMAIN last.reqs : last.reqs[i].type = "record" =>
              /\ i = Len(last.reqs)
              /\ last.reqs[i].method = "PUT"
              /\ last.reqs[i].url = <<"http://", "store.example", "/">>
                                       \o <<last.arg.project, "/", last.arg.label, "/">>
        /\ last.err = "none" <=>
              (RecordWrites # <<>> /\ RecordWrites[1].status \in {200, 201})
        /\ (RecordWrites # <<>> /\ RecordWrites[1].status \notin {200, 201}) =>
              last.err = AccessError

\* save("proj1", record of label "run001") has issued its PUT to
\* http://store.example/proj1/run001/, was answered 201 and returned
C10_Witness_SaveCreated ==
    /\ IsHttp
    /\ last.op = "save"
    /\ last.err = "none"
    /\ RecordWrites # <<>>
    /\ RecordWrites[1].url = <<"http://", "store.example", "/", "proj1", "/", "run001", "/">>
    /\ RecordWrites[1].status = 201

\* the records the CoRR service holds for the project of that name
CHeld(srv, name) ==
    IF CProjectNamed(srv, name) = <<>> THEN <<>>
    ELSE SelectSeq(srv.records, LAMBDA r : r.project = CProjectNamed(srv, name)[1].id)

\* C11: on the CoRR store get(P, L), answered by the service itself, for a
\* project P the service holds and a label L no record of P carries, raises
\* NotFound, the kind the generic store raises for an absent label.
C11_CoRRGetAbsentIsNotFound ==
    (IsCoRR /\ last.op = "get" /\ ~last.injected
     /\ CProjectNamed(csrv, last.arg.project) # <<>>
     /\ \A i \in DOMAIN CHeld(csrv, last.arg.project) :
           CHeld(csrv, last.arg.project)[i].head.label # last.arg.label) =>
        last.err = NotFound

\* the records a value returned by list holds
Listed(val) == IF "record" \in DOMAIN val THEN <<val.record>> ELSE <<>>

\* C12: on the CoRR store, for a project P the service holds and every request
\* answered by the service, list(P) returns one record for every record of P
\* (none for an empty project) and labels(P) returns the labels of those
\* records, one per record.
C12_CoRRListAndLabelsComplete ==
    (IsCoRR /\ ~last.injected /\ CProjectNamed(csrv, last.arg.project) # <<>>) =>
        /\ last.op = "list" =>
              /\ last.err = "none"
              /\ Len(Listed(last.val)) = Len(CHeld(csrv, last.arg.project))
              /\ \A i \in DOMAIN Listed(last.val) :
                    Listed(last.val)[i].label = CHeld(csrv, last.arg.project)[i].head.label
        /\ last.op = "labels" =>
              /\ last.err = "none"
              /\ "labels" \in DOMAIN last.val
              /\ last.val.labels = [i \in DOMAIN CHeld(csrv, last.arg.project) |->
                                       CHeld(csrv, last.arg.project)[i].head.label]

\* the timestamp the service holds of a record
CStamp(r) == r.body.body.content.timestamp.datetime

\* C13: on the CoRR store most_recent(P), every request answered by the
\* service, returns the label of the record of P whose timestamp is the
\* greatest, wherever that record stands in the listing.
C13_CoRRMostRecentIsLatest ==
    (IsCoRR /\ last.op = "most_recent" /\ ~last.injected
     /\ CHeld(csrv, last.arg.project) # <<>>) =>
        /\ last.err = "none"
        /\ \E i \in DOMAIN CHeld(csrv, last.arg.project) :
              /\ CHeld(csrv, last.arg.project)[i].head.label = last.val.label
              /\ \A j \in DOMAIN CHeld(csrv, last.arg.project) :
                    CStamp(CHeld(csrv, last.arg.project)[j])
                       <= CStamp(CHeld(csrv, last.arg.project)[i])

\* C14: when the class get_record_store selects for the URI has a constructor
\* that raises, the caller gets that error: that one class was constructed,
\* once, no other class and no default store after it, and no store is
\* returned.
C14_ConstructorErrorReachesCaller ==
    (last.op = "get_record_store" /\ Accepting # {}
     /\ ~Construct(registered[Min(Accepting)], files, last.arg.uri).ok) =>
        /\ last.err = Construct(registered[Min(Accepting)], files, last.arg.uri).exc
        /\ last.err # "none"
        /\ last.val.built = <<registered[Min(Accepting)]>>
        /\ store = NoStore

\* the CoRR store was selected for a file that holds the signature and is no
\* JSON, with the generic store registered after it: the ValueError of the
\* constructor reached the caller
C14_Witness_CoRRConstructorRaised ==
    /\ last.op = "get_record_store"
    /\ last.err = "ValueError"
    /\ registered = <<"HttpCoRRStore", "HttpRecordStore">>
    /\ last.val.built = <<"HttpCoRRStore">>
    /\ store = NoStore

SingleForm(r) == [head |-> r.head, body |-> [content |-> r.body.body.content]]

\* C16: for every record the CoRR service holds, decoding its single-record
\* form (fields under body.content) and decoding it as an element of a listing
\* (fields under body.body.content) give the same record.
C16_SingleAndListFormsDecodeAlike ==
    \A i \in DOMAIN csrv.records :
        "system" \in DOMAIN csrv.records[i].head =>
            /\ CoRRDecode(csrv.records[i]).err = "none"
            /\ CoRRDecode(SingleForm(csrv.records[i])) = CoRRDecode(csrv.records[i])

\* the requests of a call that ask the CoRR service to create a record
Creations(l) ==
    {i \in DOMAIN l.reqs :
        /\ l.reqs[i].method = "POST"
        /\ StartsWith(l.reqs[i].url, store.server_url \o <<"project/record/create/">>)}

\* those of them the service answered with HTTP 200 and code 201
Created(l) == {i \in Creations(l) : l.reqs[i].status = 200 /\ l.reqs[i].code = 201}

\* the file uploads of a call
Uploads(l) == {i \in DOMAIN l.reqs : l.reqs[i].type = "multipart"}

\* the URL of the k-th upload of a save of record with the id the service gave
UploadUrl(record, id, k) ==
    store.server_url \o <<"file/upload/",
                          IF k <= Len(record.input_data) THEN "input" ELSE "output",
                          "/", ToString(id)>>

\* C17 as stated: once the creation is answered with HTTP 200 and code 201,
\* save issues exactly one upload per input data item and one per output data
\* item, each to the URL of its group and the id the service gave the record;
\* when the creation is not answered so, no file is uploaded.
C17_OneUploadPerDataItem ==
    (IsCoRR /\ last.op = "save") =>
        /\ Cardinality(Creations(last)) <= 1
        /\ Created(last) = {} => Uploads(last) = {}
        /\ \A c \in Created(last) :
              /\ Uploads(last) = (c + 1)..Len(last.reqs)
              /\ Len(last.reqs) - c
                    = Len(last.arg.record.input_data) + Len(last.arg.record.output_data)
              /\ \A k \in 1..(Len(last.reqs) - c) :
                    /\ last.reqs[c + k].method = "POST"
                    /\ last.reqs[c + k].url
                          = UploadUrl(last.arg.record,
                                      csrv.records[Len(csrv.records)].head.id, k)

\* C17: a save to the CoRR store is two phases. It creates the record with
\* one POST; only when that is answered with HTTP 200 and code 201 does it
\* upload, and then every later request is an upload: in the order of the
\* data items, inputs to file/upload/input/<id> and then outputs to
\* file/upload/output/<id>, <id> the id the service gave the record, one
\* request per item. The uploads stop short of the last item only when a data
\* file cannot be opened, which ends save with the IOError; otherwise there is
\* exactly one per item. When the creation is not answered so, no file is
\* uploaded.
C17_SaveCreatesThenUploads ==
    (IsCoRR /\ last.op = "save") =>
        /\ Cardinality(Creations(last)) <= 1
        /\ Created(last) = {} => Uploads(last) = {} /\ last.err # "IOError"
        /\ \A c \in Created(last) :
              /\ Uploads(last) = (c + 1)..Len(last.reqs)
              /\ IF last.err = "IOError"
                 THEN Len(last.reqs) - c
                        < Len(last.arg.record.input_data) + Len(last.arg.record.output_data)
                 ELSE /\ last.err = "none"
                      /\ Len(last.reqs) - c
                            = Len(last.arg.record.input_data)
                              + Len(last.arg.record.output_data)
              /\ \A k \in 1..(Len(last.reqs) - c) :
                    /\ last.reqs[c + k].method = "POST"
                    /\ last.reqs[c + k].url
                          = UploadUrl(last.arg.record,
                                      csrv.records[Len(csrv.records)].head.id, k)

\* a record of two input items and one output item was created, both inputs
\* were uploaded and the file of the output could not be opened
C17_Witness_UploadsUntilUnreadable ==
    /\ IsCoRR /\ last.op = "save"
    /\ last.err = "IOError"
    /\ Len(last.arg.record.input_data) = 2
    /\ Created(last) # {}
    /\ Cardinality(Uploads(last)) = 2
    /\ \A i \in Uploads(last) : last.reqs[i].status = 200
    /\ Cardinality(csrv.uploads) >= 2

\* C18: when an upload of a save to the CoRR store is answered with a failure
\* status, save does not return normally: the caller gets an error.
C18_FailedUploadReachesCaller ==
    (IsCoRR /\ last.op = "save"
     /\ \E i \in Uploads(last) : last.reqs[i].status # 200) =>
        last.err # "none"

\* the uploads of a call the service answered itself, by group
Answered(l, group) ==
    {i \in Uploads(l) : /\ l.reqs[i].status = 200 /\ l.reqs[i].code = 0
                         /\ l.reqs[i].url[Len(store.server_url) + 2] = group}

\* the requests save issues: the listing of the projects, the creation of
\* the project, the creation of the record, the uploads
SaveRequest(q) ==
    \/ q.method = "GET" /\ q.url = store.server_url \o <<"projects">>
    \/ q.method = "POST" /\ q.url = store.server_url \o <<"project/create">>
    \/ q.method = "POST"
       /\ StartsWith(q.url, store.server_url \o <<"project/record/create/">>)
    \/ q.method = "POST" /\ q.type = "multipart"
       /\ StartsWith(q.url, store.server_url \o <<"file/upload/">>)

\* C19: when save to the CoRR store has created the record (HTTP 200, code
\* 201) and an upload fails after it, the record stays on the service with
\* the uploads the service completed for it, and save has issued no request
\* but the project listing, the project creation, the record creation and
\* the uploads: no delete, nothing that takes the record back.
C19_NoRollbackAfterFailedUpload ==
    (IsCoRR /\ last.op = "save" /\ Created(last) # {}
     /\ (last.err = "IOError" \/ \E i \in Uploads(last) : last.reqs[i].status # 200
                                                         \/ last.reqs[i].code # 0)) =>
        LET r == csrv.records[Len(csrv.records)]
        IN  /\ r.head.label = last.arg.label
            /\ r \in {CHeld(csrv, last.arg.project)[i] :
                          i \in DOMAIN CHeld(csrv, last.arg.project)}
            /\ \A group \in {"input", "output"} :
                  Cardinality({u \in csrv.uploads :
                                  u.record = r.head.id /\ u.group = group})
                     = Cardinality(Answered(last, group))
            /\ \A i \in DOMAIN last.reqs : SaveRequest(last.reqs[i])

\* the record was created, the upload of its first input was completed, the
\* upload of its second input was answered with status 500, the upload of
\* its output was completed: the record and two uploads are on the service
C19_Witness_RecordKeptAfterFailedUpload ==
    /\ IsCoRR /\ last.op = "save"
    /\ Created(last) # {}
    /\ Cardinality(Uploads(last)) = 3
    /\ \E i \in Uploads(last) :
          /\ last.reqs[i].status = 500
          /\ i - 1 \in Uploads(last) /\ last.reqs[i - 1].status = 200
    /\ csrv.records[Len(csrv.records)].head.label = last.arg.label
    /\ Cardinality({u \in csrv.uploads :
                       u.record = csrv.records[Len(csrv.records)].head.id}) = 2

\* the request by which save asks whether the project exists: the generic
\* store GETs the project, the CoRR store GETs the projects
IsCheck(q, name) ==
    /\ q.method = "GET"
    /\ q.url = IF IsHttp THEN store.server_url \o <<name, "/">>
               ELSE store.server_url \o <<"projects">>

\* the request by which save creates the project
IsProjectCreation(q, name) ==
    IF IsHttp THEN q.method = "PUT" /\ q.url = store.server_url \o <<name, "/">>
    ELSE q.method = "POST" /\ q.url = store.server_url \o <<"project/create">>

\* the request by which save writes the record
IsRecordWrite(q, name, label) ==
    IF IsHttp THEN q.method = "PUT" /\ q.url = HttpRecordUrl(store, name, label)
    ELSE /\ q.method = "POST"
         /\ StartsWith(q.url, store.server_url \o <<"project/record/create/">>)

\* the service holds the project and in it the record
HoldsRecord(name, record) ==
    IF IsHttp
    THEN /\ gsrv[name].exists
         /\ gsrv[name].records[record.label] = encode_record(record)
    ELSE /\ CProjectNamed(csrv, name) # <<>>
         /\ \E i \in DOMAIN CHeld(csrv, name) :
               /\ CHeld(csrv, name)[i].head.label = record.label
               /\ CHeld(csrv, name)[i].head.inputs = record.input_data
               /\ CHeld(csrv, name)[i].head.outputs = record.output_data
               /\ CHeld(csrv, name)[i].body.body.content.reason = record.reason
               /\ CHeld(csrv, name)[i].body.body.content.timestamp
                     = encode_record(record).timestamp

\* C20: save(P, R) on both remote stores. Its first request asks whether P
\* exists; a request that creates P is the second and a request that writes
\* R comes after both. With the service answering every request itself:
\* when P was absent the second request creates P and the third writes R,
\* when P existed no request creates a project, and after a successful save
\* P exists and holds R.
C20_SaveCreatesAbsentProject ==
    ((IsHttp \/ IsCoRR) /\ last.op = "save") =>
        LET P == last.arg.project
            L == last.arg.label
            reqs == last.reqs
        IN  /\ reqs # <<>> /\ IsCheck(reqs[1], P)
            /\ \A i \in DOMAIN reqs :
                  /\ IsProjectCreation(reqs[i], P) => i = 2
                  /\ IsRecordWrite(reqs[i], P, L) =>
                        /\ i > 1
                        /\ \A j \in DOMAIN reqs : IsProjectCreation(reqs[j], P) => j < i
            /\ ~last.injected =>
                  /\ ~last.pre.exists =>
                        /\ Len(reqs) >= 3
                        /\ IsProjectCreation(reqs[2], P)
                        /\ IsRecordWrite(reqs[3], P, L)
                  /\ last.pre.exists =>
                        /\ \A i \in DOMAIN reqs : ~IsProjectCreation(reqs[i], P)
                        /\ Len(reqs) >= 2
                        /\ IsRecordWrite(reqs[2], P, L)
                  /\ last.err = "none" => HoldsRecord(P, last.arg.record)

\* a save to the generic store created the absent project and wrote the record
C20_Witness_HttpSaveCreatedProject ==
    /\ IsHttp /\ last.op = "save"
    /\ ~last.injected /\ ~last.pre.exists
    /\ last.err = "none"
    /\ Len(last.reqs) = 3
    /\ gsrv[last.arg.project].exists
    /\ gsrv[last.arg.project].records[last.arg.label] = encode_record(last.arg.record)

\* the requests of a call that address a record of the generic service
RecordRequests(l) == {i \in DOMAIN l.reqs : l.reqs[i].type = "record"}

\* the requests of a call that PUT the project
ProjectPuts(l) ==
    {i \in DOMAIN l.reqs :
        /\ l.reqs[i].method = "PUT"
        /\ l.reqs[i].url = store.server_url \o <<l.arg.project, "/">>}

\* C21: sync(other, P) on the generic REST store first asks the target
\* whether P exists, and no request for a record comes before that. With the
\* service answering every request itself: when P was absent the second
\* request creates it (answered 201) and every request for a record comes
\* after it; when P existed no request creates it. After a sync that returned
\* without error P exists on the target, also when the source holds no record
\* of P.
C21_SyncCreatesAbsentProject ==
    (IsHttp /\ last.op = "sync") =>
        /\ last.reqs # <<>>
        /\ last.reqs[1].method = "GET"
        /\ last.reqs[1].url = store.server_url \o <<last.arg.project, "/">>
        /\ \A i \in RecordRequests(last) : i > 1
        /\ last.err = "none" => gsrv[last.arg.project].exists
        /\ ~last.injected =>
              /\ ~last.pre.exists =>
                    /\ 2 \in ProjectPuts(last)
                    /\ last.reqs[2].status = 201
                    /\ \A i \in RecordRequests(last) : i > 2
              /\ last.pre.exists => ProjectPuts(last) = {}

\* a sync from a source without a record of the project has returned: the
\* project was absent, two requests were issued and the project exists
C21_Witness_EmptySourceCreatesProject ==
    /\ IsHttp /\ last.op = "sync"
    /\ last.err = "none"
    /\ ~last.injected
    /\ ~last.pre.exists
    /\ OtherLabels(last.arg.other, last.arg.project) = {}
    /\ Len(last.reqs) = 2
    /\ gsrv[last.arg.project].exists

\* C22: sync(other, P) on the CoRR store, the service answering every request
\* itself and each with HTTP 200, makes sure P exists and completes without
\* error, with every record of the source in P as after the generic merge.
C22_CoRRSyncCompletes ==
    (IsCoRR /\ last.op = "sync" /\ ~last.injected
     /\ \A i \in DOMAIN last.reqs : last.reqs[i].status = 200) =>
        /\ last.err = "none"
        /\ CProjectNamed(csrv, last.arg.project) # <<>>
        /\ \A l \in OtherLabels(last.arg.other, last.arg.project) :
              \E i \in DOMAIN CHeld(csrv, last.arg.project) :
                  CHeld(csrv, last.arg.project)[i].head.label = l

\* the content the target may hold under a label after the sync of last: what
\* it held before, or the source's record of that label as save encodes it
MayHold(l) ==
    {last.pre.records[l]}
    \cup (IF OtherGet(last.arg.other, last.arg.project, l) = NoRec THEN {}
          ELSE {encode_record(OtherGet(last.arg.other, last.arg.project, l))})

\* C23: when sync(other, P) on the generic REST store raises, every record
\* the target then holds in P is the one it held before the sync or the
\* source's record of that label, and every request went to P; a sync of
\* the same source into P that follows the failed one and returns without
\* error leaves every label of the source in P with the source's content.
C23_FailedSyncCanBeRepeated ==
    (IsHttp /\ last.op = "sync") =>
        /\ last.err # "none" =>
              /\ \A l \in Labels : gsrv[last.arg.project].records[l] \in MayHold(l)
              /\ \A i \in DOMAIN last.reqs :
                    StartsWith(last.reqs[i].url,
                               store.server_url \o <<last.arg.project, "/">>)
        /\ (prev.op = "sync_failed" /\ last.err = "none") =>
              \A l \in OtherLabels(last.arg.other, last.arg.project) :
                  gsrv[last.arg.project].records[l]
                     = encode_record(OtherGet(last.arg.other, last.arg.project, l))

\* a sync of two records failed after it had copied one of them, and the
\* sync of the same source that followed has returned without error
C23_Witness_SecondSyncCompletes ==
    /\ IsHttp /\ last.op = "sync"
    /\ prev.op = "sync_failed"
    /\ last.err = "none"
    /\ OtherLabels(last.arg.other, last.arg.project) = Labels
    /\ \E l1, l2 \in Labels :
          /\ last.pre.records[l1]
                = encode_record(OtherGet(last.arg.other, last.arg.project, l1))
          /\ last.pre.records[l2] = NoWire
    /\ \A l \in Labels :
          gsrv[last.arg.project].records[l]
             = encode_record(OtherGet(last.arg.other, last.arg.project, l))

\* C24: sync(other, P) on the generic REST store calls nothing on the source
\* but the listing of its labels and get. After a sync that returned without
\* error, a label the source holds and the target held with other content
\* has the source's content on the target, whatever the timestamps of the two
\* records, and a label only the target held is as it was.
C24_SyncOneWayLastWriterWins ==
    (IsHttp /\ last.op = "sync") =>
        /\ \A i \in DOMAIN last.source : last.source[i].op \in {"labels", "get"}
        /\ last.err = "none" =>
              \A l \in Labels :
                  IF l \in OtherLabels(last.arg.other, last.arg.project)
                  THEN gsrv[last.arg.project].records[l]
                          = encode_record(OtherGet(last.arg.other, last.arg.project, l))
                  ELSE gsrv[last.arg.project].records[l] = last.pre.records[l]

\* the target held under a label a record with a later timestamp than the
\* source's record of that label and held a label the source does not: the
\* sync returned without error, the target has the source's older record and
\* the source was asked for its labels and for that record, nothing else
C24_Witness_OlderSourceRecordWins ==
    /\ IsHttp /\ last.op = "sync"
    /\ last.err = "none"
    /\ \E l, k \in Labels :
          /\ OtherGet(last.arg.other, last.arg.project, l) # NoRec
          /\ last.pre.records[l] # NoWire
          /\ last.pre.records[l].timestamp.datetime
                > OtherGet(last.arg.other, last.arg.project, l).timestamp
          /\ gsrv[last.arg.project].records[l]
                = encode_record(OtherGet(last.arg.other, last.arg.project, l))
          /\ OtherGet(last.arg.other, last.arg.project, k) = NoRec
          /\ last.pre.records[k] # NoWire
          /\ last.source = <<[op |-> "labels", label |-> "none"], [op |-> "get", label |-> l]>>

\* the requests of a call to a URL that ends in the id of a project
ByProjectId(l) ==
    {i \in DOMAIN l.reqs :
        \E part \in {"project/record/create/", "project/records/", "project/update/"} :
            /\ Len(l.reqs[i].url) = Len(store.server_url) + 2
            /\ StartsWith(l.reqs[i].url, store.server_url \o <<part>>)}

RaceProjectPuts(c) ==
    {i \in DOMAIN callers[c].reqs :
        /\ callers[c].reqs[i].method = "PUT"
        /\ callers[c].reqs[i].url = store.server_url \o <<callers[c].project, "/">>}

RaceRecordPuts(c) ==
    {i \in DOMAIN callers[c].reqs :
        /\ callers[c].reqs[i].method = "PUT"
        /\ callers[c].reqs[i].url
              = HttpRecordUrl(store, callers[c].project, callers[c].record.label)}

\* C26: of two callers that save records of different labels into the same
\* absent project of the generic REST store, a caller whose PUT of the
\* project is not answered 201 is out of save with the access error, has
\* issued no PUT of its record, and the service does not hold that record;
\* a caller whose save returned has its record on the service; the service
\* answers 201 to at most one of the PUTs of the project.
C26_LoserOfCreationRaceWritesNothing ==
    /\ \A c \in Callers :
          /\ (\E i \in RaceProjectPuts(c) : callers[c].reqs[i].status # 201) =>
                /\ callers[c].pc = "raised"
                /\ callers[c].err = AccessError
                /\ RaceRecordPuts(c) = {}
                /\ gsrv[callers[c].project].records[callers[c].record.label] = NoWire
          /\ callers[c].pc = "returned" =>
                gsrv[callers[c].project].records[callers[c].record.label]
                   = encode_record(callers[c].record)
    /\ Cardinality({c \in Callers :
                       \E i \in RaceProjectPuts(c) : callers[c].reqs[i].status = 201}) <= 1

\* both callers were told the project is absent and both PUT it: the first
\* was answered 201 and its save returned with its record on the service,
\* the second was answered 200 and its save raised the access error
C26_Witness_BothCreate ==
    /\ \A c \in Callers :
          /\ callers[c].reqs # <<>>
          /\ callers[c].reqs[1].method = "GET"
          /\ callers[c].reqs[1].status = 404
          /\ RaceProjectPuts(c) = {2}
    /\ \E w, l \in Callers :
          /\ callers[w].reqs[2].status = 201
          /\ callers[w].pc = "returned"
          /\ callers[l].reqs[2].status = 200
          /\ callers[l].pc = "raised"
          /\ Len(callers[l].reqs) = 2

====
